---- MODULE Spec2Model ----
(***************************************************************************)
(* A model of bienehito/fluid-dynamics: the FluidDynanmics class and the   *)
(* WebGL helpers it uses (src/src/webgl-utils.js).  One instance, its GL   *)
(* context, the caller's objects it shares (solids, renderTransforms) and  *)
(* the requestAnimationFrame queue.                                        *)
(*                                                                         *)
(* Numbers.  A JS Number is modelled exactly: a rational is <<n, d>> with  *)
(* d > 0 in lowest terms; a solid's position and velocity components are   *)
(* <<a, b>> (a, b rationals) standing for a + b*pi, because the force on   *)
(* a solid carries the factor step = 2*pi/20 and a derived mass the factor *)
(* pi.  Floating-point rounding is not modelled.                           *)
(*                                                                         *)
(* An optional value (undefined, null, a missing property) is the empty    *)
(* sequence <<>>, a present one <<v>>.                                     *)
(*                                                                         *)
(* The content of a GPU buffer is abstracted to the name of the program    *)
(* that last drew into it; the pressure samples read back for a solid are  *)
(* an input of the step (the sums dx, dy of _updateSolids).                *)
(* The profiling statistic updateTime (lines 480-481) is not modelled.     *)
(***************************************************************************)
EXTENDS Integers, Sequences, FiniteSets, TLC

VARIABLES
    ctor,     \* how `new FluidDynanmics(gl, opts)` ended: "returned" | "raised"
    opts,     \* the options object the caller passed (<<>>: none)
    fd,       \* the instance: configuration fields, _recorded fields, field buffers, solids
    gl,       \* the WebGL context: buffers, texture units, sampler uniforms
    arrays,   \* the JS arrays solids point to: ref -> <<x, y>>
    rtObjs,   \* the renderTransforms objects: "config" (module default) and "opts" (caller's)
    raf,      \* requestAnimationFrame callbacks pending
    trace,    \* what the last operation did: op (and the one before), raised, calls,
              \* GL passes, the force and mass each solid was integrated with, and
              \* the value returned
    budget    \* operations left to each bounded kind of operation

vars == <<ctor, opts, fd, gl, arrays, rtObjs, raf, trace, budget>>

-----------------------------------------------------------------------------
(* Bounds of the model. *)

\* Ticks (_update runs) in one behaviour.
MaxTicks == 2
\* Calls of public methods (step, render, reset, setVelocity, setDye) in one behaviour.
MaxCalls == 2
\* Writes of configuration fields by the caller in one behaviour.
MaxWrites == 1
\* Solids the caller pushes.
MaxSolids == 1

-----------------------------------------------------------------------------
(* JS Number arithmetic on rationals. *)

None == <<>>
Some(v) == <<v>>

Abs(x) == IF x < 0 THEN -x ELSE x

RECURSIVE Gcd(_, _)
Gcd(a, b) == IF b = 0 THEN a ELSE Gcd(b, a % b)

\* n/d in lowest terms, d # 0.
Rat(n, d) ==
    LET g == Gcd(Abs(n), Abs(d))
        s == IF d < 0 THEN -1 ELSE 1
    IN  <<s * (n \div g), s * (d \div g)>>

Num(n) == <<n, 1>>
\* Sums over the least common denominator and products after cross-cancelling,
\* which keeps the intermediate integers small.
RAdd(a, b) ==
    LET g == Gcd(a[2], b[2])
    IN  Rat(a[1] * (b[2] \div g) + b[1] * (a[2] \div g), (a[2] \div g) * b[2])
RSub(a, b) == RAdd(a, <<-b[1], b[2]>>)
RMul(a, b) ==
    LET g1 == Gcd(Abs(a[1]), b[2])
        g2 == Gcd(Abs(b[1]), a[2])
    IN  Rat((a[1] \div g1) * (b[1] \div g2), (a[2] \div g2) * (b[2] \div g1))
RDiv(a, b) == RMul(a, Rat(b[2], b[1]))
RLess(a, b) == a[1] * b[2] < b[1] * a[2]
RLeq(a, b) == a[1] * b[2] <= b[1] * a[2]
\* Math.min
RMin(a, b) == IF RLess(b, a) THEN b ELSE a
\* Math.floor, Math.ceil
Floor(a) == a[1] \div a[2]
Ceil(a) == -((-a[1]) \div a[2])

\* a + b*pi
PiNum(a, b) == <<a, b>>
PZero == PiNum(Num(0), Num(0))
PAdd(x, y) == PiNum(RAdd(x[1], y[1]), RAdd(x[2], y[2]))
PScale(q, x) == PiNum(RMul(q, x[1]), RMul(q, x[2]))
\* x / m for the two shapes a mass has: a rational (explicit mass) or a
\* multiple of pi (density * pi * r * r) dividing a force, itself a multiple of pi.
PDiv(x, m) ==
    IF m[2] = Num(0) THEN PScale(RDiv(Num(1), m[1]), x)
    ELSE PiNum(RDiv(x[2], m[2]), Num(0))
\* Rational bounds of pi used to take Math.floor of a + b*pi.
PiLo == <<333, 106>>
PiHi == <<355, 113>>
PFloor(x) == Floor(RAdd(x[1], RMul(x[2], IF x[2][1] >= 0 THEN PiLo ELSE PiHi)))

-----------------------------------------------------------------------------
(* The module-level defaults. *)

RTKeys == {"dye", "velocity", "pressure", "divergence", "curl", "solid"}

\* config.renderTransforms
configRenderTransforms ==
    [k \in RTKeys |->
        CASE k = "velocity" -> Some(<<1, 100>>)
          [] k = "pressure" -> Some(<<1, 100>>)
          [] k = "divergence" -> Some(<<1, 1>>)
          [] k = "curl" -> Some(<<1, 10>>)
          [] k = "solid" -> Some(<<1, 10>>)
          [] OTHER -> None]

\* const config = {...}; renderTransforms holds a reference to the object above.
config ==
    [ bottom |-> 0, left |-> 0, width |-> 100, height |-> 100,
      simScale |-> <<1, 1>>, dyeScale |-> <<1, 1>>,
      paused |-> FALSE,
      velocityDissipation |-> <<1, 10>>, dyeDissipation |-> <<1, 10>>,
      pressureDissipation |-> <<0, 1>>,
      maxSimulationStep |-> <<1, 20>>,
      pressureIterations |-> 20,
      curl |-> 3,
      renderSource |-> "dye",
      renderTransforms |-> "config",
      preRender |-> "null", postRender |-> "null",
      autoUpdate |-> TRUE,
      updateTimeAlpha |-> <<1, 120>> ]

ConfigKeys == DOMAIN config

\* The programs the constructor compiles.
ProgramNames ==
    {"advection", "curl", "divergence", "ellipsis", "gradientSubtract",
     "pressure", "transform", "splat", "vorticity"}

-----------------------------------------------------------------------------
(* JS values handed to a program as uniform values. *)

Scalar(v) == [t |-> "number", v |-> v]
Arr(s) == [t |-> "Array", v |-> s]
F32(s) == [t |-> "Float32Array", v |-> s]

\* The GLSL type of each active uniform of each program.
UniformTypes ==
    [p \in ProgramNames |->
        CASE p = "transform" -> [uTexture |-> "sampler2D", value |-> "mat4"]
          [] p = "splat" ->
                [uSource |-> "sampler2D", point |-> "vec2", transform |-> "mat2",
                 color |-> "vec3"]
          [] p = "ellipsis" ->
                [uSource |-> "sampler2D", point |-> "vec2", transform |-> "mat2",
                 color |-> "vec3"]
          [] p = "advection" ->
                [uVelocity |-> "sampler2D", uSource |-> "sampler2D",
                 texelSize |-> "vec2", dt |-> "float", scale |-> "float"]
          [] p = "curl" -> [uVelocity |-> "sampler2D", texelSize |-> "vec2"]
          [] p = "vorticity" ->
                [uVelocity |-> "sampler2D", uCurl |-> "sampler2D", texelSize |-> "vec2",
                 curl |-> "float", dt |-> "float"]
          [] p = "divergence" -> [uVelocity |-> "sampler2D", texelSize |-> "vec2"]
          [] p = "pressure" ->
                [uDivergence |-> "sampler2D", uPressure |-> "sampler2D",
                 texelSize |-> "vec2"]
          [] OTHER ->
                [uPressure |-> "sampler2D", uVelocity |-> "sampler2D",
                 texelSize |-> "vec2"]]

\* uniformTypeMeta: the number of arguments expected for a GL type.
uniformTypeMeta(type) ==
    CASE type = "float" -> 1
      [] type = "vec2" -> 2
      [] type = "vec3" -> 3
      [] type = "vec4" -> 4
      [] type = "sampler2D" -> 1
      [] OTHER -> 1

Samplers(p) == {u \in DOMAIN UniformTypes[p] : UniformTypes[p][u] = "sampler2D"}

-----------------------------------------------------------------------------
(* The world an operation runs in, and how an operation ends. *)

World ==
    [ctor |-> ctor, opts |-> opts, fd |-> fd, gl |-> gl, arrays |-> arrays,
     rtObjs |-> rtObjs, raf |-> raf, trace |-> trace]

Become(w) ==
    /\ ctor' = w.ctor
    /\ opts' = w.opts
    /\ fd' = w.fd
    /\ gl' = w.gl
    /\ arrays' = w.arrays
    /\ rtObjs' = w.rtObjs
    /\ raf' = w.raf
    /\ trace' = w.trace

EmptyTrace(op, prev) ==
    [op |-> op, prev |-> prev, raised |-> None, calls |-> <<>>, passes |-> <<>>,
     integ |-> <<>>, result |-> None]

\* A fresh top-level operation starts with an empty trace.
Begin(w, op) == [w EXCEPT !.trace = EmptyTrace(op, w.trace.op)]

\* throw
Raise(w, what) == [w EXCEPT !.trace.raised = Some(what)]
Raised(w) == w.trace.raised # None

\* Sequencing: the next statement runs unless an exception is propagating.
Then(w, F(_)) == IF Raised(w) THEN w ELSE F(w)
\* if (C) F: the same, under a condition evaluated when the statement is reached.
ThenIf(w, C(_), F(_)) == IF ~Raised(w) /\ C(w) THEN F(w) ELSE w

Called(w, op, arg) == [w EXCEPT !.trace.calls = Append(@, [op |-> op, arg |-> arg])]

-----------------------------------------------------------------------------
(* WebGL helpers. *)

GLInit ==
    [buffers |-> <<>>,
     units |-> <<0, 0>>,
     program |-> "none",
     uniforms |-> [p \in ProgramNames |-> [u \in DOMAIN UniformTypes[p] |-> None]]]

\* The texture bound to the unit a sampler uniform of the current program names.
SampledBy(g, p, u) ==
    LET val == g.uniforms[p][u]
        unit == IF val = None THEN 0 ELSE val[1].v
    IN  g.units[unit + 1]

\* createTextureFBO: a texture and framebuffer of w x h, cleared; the new
\* texture stays bound to texture unit 0.  texImage2D takes GLsizei sizes:
\* the storage is the integer part of w and h.
createTextureFBO(w, wd, ht) ==
    LET id == Len(w.gl.buffers) + 1
    IN  [w EXCEPT
            !.gl.buffers = Append(@, [width |-> wd, height |-> ht,
                                      texWidth |-> Floor(wd), texHeight |-> Floor(ht),
                                      deleted |-> FALSE, data |-> "clear"]),
            !.gl.units[1] = id]

\* The object createDoubleTextureFBO returns, made of the two buffers created last.
DoubleFBO(w, wd, ht) ==
    [read |-> Len(w.gl.buffers) - 1, write |-> Len(w.gl.buffers), w |-> wd, h |-> ht]

createDoubleTextureFBO(w, wd, ht) ==
    createTextureFBO(createTextureFBO(w, wd, ht), wd, ht)

\* fbo.attach(unit)
attach(w, id, unit) == [w EXCEPT !.gl.units[unit + 1] = id]

\* fbo.delete(): a deleted texture drops out of the units it is bound to.
deleteFBO(w, id) ==
    [w EXCEPT
        !.gl.buffers[id].deleted = TRUE,
        !.gl.units = [i \in DOMAIN @ |-> IF @[i] = id THEN 0 ELSE @[i]],
        !.trace.passes = Append(@, [kind |-> "delete", prog |-> "none", reads |-> {},
                                    target |-> id])]

\* doubleFbo.swap()
swap(w, name) ==
    [w EXCEPT
        !.fd[name] = Some([read |-> @[1].write, write |-> @[1].read,
                           w |-> @[1].w, h |-> @[1].h]),
        !.trace.passes = Append(@, [kind |-> "swap", prog |-> name, reads |-> {},
                                    target |-> 0])]

\* useProgram: makes the program current and sets the given uniforms.  A value
\* that is not an Array (a number, a typed array) is wrapped and counts as one
\* argument; gl.uniforms keeps the value handed to gl[method] for each name.
\* The names are taken as a set: what a call that throws had set before the
\* throw is not kept.
useProgram(w, p, params) ==
    LET bad == {u \in DOMAIN params : u \notin DOMAIN UniformTypes[p]}
        size(v) == IF v.t = "Array" THEN Len(v.v) ELSE 1
        wrong == {u \in DOMAIN params \ bad :
                    size(params[u]) # uniformTypeMeta(UniformTypes[p][u])}
        w1 == [w EXCEPT !.gl.program = p]
    IN  IF bad # {} THEN Raise(w1, "no such uniform")
        ELSE IF wrong # {} THEN Raise(w1, "invalid number of arguments")
        ELSE [w1 EXCEPT !.gl.uniforms[p] =
                [u \in DOMAIN @ |-> IF u \in DOMAIN params THEN Some(params[u]) ELSE @[u]]]

RECURSIVE attachAll(_, _)
attachAll(w, atts) ==
    IF atts = <<>> THEN w
    ELSE attachAll(attach(w, atts[1][1], atts[1][2]), Tail(atts))

\* this._programs.<p>.use({...}): the program is looked up first (it is missing
\* when it did not link), then the argument is built, attaching the textures
\* `atts` (<<buffer, unit>> in order), then useProgram runs.
use(w, p, atts, params) ==
    IF p \notin w.fd._programs THEN Raise(w, "TypeError")
    ELSE useProgram(attachAll(w, atts), p, params)

-----------------------------------------------------------------------------
(* Half floats.  Bit patterns are naturals; the 32-bit pattern of a float32 is *)
(* kept as <<s, m>>: the sign bit s (bit 31) and the low 31 bits m.            *)

RECURSIVE Pow2(_)
Pow2(n) == IF n = 0 THEN 1 ELSE 2 * Pow2(n - 1)

\* x << n and x >> n on naturals that stay below 2^31
ShiftL(x, n) == x * Pow2(n)
ShiftR(x, n) == x \div Pow2(n)

\* x & y and x | y on naturals
RECURSIVE BitAnd(_, _)
BitAnd(x, y) ==
    IF x = 0 \/ y = 0 THEN 0
    ELSE (x % 2) * (y % 2) + 2 * BitAnd(x \div 2, y \div 2)

RECURSIVE BitOr(_, _)
BitOr(x, y) ==
    IF x = 0 THEN y
    ELSE IF y = 0 THEN x
    ELSE (IF x % 2 = 1 \/ y % 2 = 1 THEN 1 ELSE 0) + 2 * BitOr(x \div 2, y \div 2)

\* Math.clz32(x) for 0 < x < 2^31
RECURSIVE Clz32(_)
Clz32(x) == IF x = 0 THEN 32 ELSE Clz32(x \div 2) - 1

\* uInt16ToFloat32(hf): the bit pattern written to uInt32Val[0], whose float32
\* float32Val[0] is returned.  0x8000 = 32768, 0x7C00 = 31744, 0x03FF = 1023,
\* 0x01FF = 511, 0x7F800000 = 2139095040.
uInt16ToFloat32(hf) ==
    LET sign == ShiftR(BitAnd(hf, 32768), 15)
        expo == ShiftR(BitAnd(hf, 31744), 10)
        frac == BitAnd(hf, 1023)
        extra == Clz32(frac) - 21
    IN  IF expo = 0
        THEN IF frac # 0
             THEN <<sign, BitOr(ShiftL(113 - extra, 23),
                                ShiftL(BitAnd(hf, 511), 13 + extra))>>
             ELSE <<sign, 0>>
        ELSE IF expo < 31
        THEN <<sign, BitOr(ShiftL(expo + 112, 23), ShiftL(BitAnd(hf, 1023), 13))>>
        ELSE <<sign, BitOr(2139095040, ShiftL(BitAnd(hf, 1023), 13))>>

-----------------------------------------------------------------------------
(* Matrices: 16 rationals, column-major. *)

identityMatrix4(s1, s2, s3, s4) ==
    LET z == Num(0)
    IN  <<s1, z, z, z,  z, s2, z, z,  z, z, s3, z,  z, z, z, s4>>

identityTransform(s) == identityMatrix4(s, s, s, Num(1))

rToRG(s) ==
    LET z == Num(0)
    IN  <<s, RSub(z, s), z, z,  z, z, z, z,  z, z, z, z,  z, z, z, Num(1)>>

\* this._defaultRenderTransforms[source](s)
defaultRenderTransform(source, s) ==
    IF source \in {"pressure", "divergence", "curl"} THEN rToRG(s)
    ELSE identityTransform(s)

\* splatTransform: the matrix is kept as the arguments it is computed from.
splatTransform(angle, majorSize, minorSize, width, height) ==
    F32(<<"splatTransform", angle, majorSize, minorSize, width, height>>)

\* x / d for a recorded size d that may still be undefined (NaN then).
OverRecorded(x, d) == IF d = None THEN None ELSE Some(Rat(x, d[1]))

-----------------------------------------------------------------------------
(* FluidDynanmics. *)

StateBuffers == <<"_dye", "_velocity", "_pressure">>
FieldNames == {"dye", "velocity", "pressure", "divergence", "curl"}

\* _blit(target): draws with the current program into target (0: the screen).
_blit(w, target) ==
    LET p == w.gl.program
        vp == IF target = 0
              THEN <<w.fd.left, w.fd.bottom,
                     IF w.fd._width = None THEN None ELSE Some(Num(w.fd._width[1])),
                     IF w.fd._height = None THEN None ELSE Some(Num(w.fd._height[1]))>>
              ELSE <<0, 0, Some(w.gl.buffers[target].width),
                     Some(w.gl.buffers[target].height)>>
        pass == [kind |-> "draw", prog |-> p,
                 reads |-> {<<u, SampledBy(w.gl, p, u)>> : u \in Samplers(p)},
                 target |-> target, viewport |-> vp, uniforms |-> w.gl.uniforms[p]]
        w1 == [w EXCEPT !.trace.passes = Append(@, pass)]
    IN  IF target = 0 THEN w1
        ELSE [w1 EXCEPT !.gl.buffers[target].data = p]

\* One round of the copy loop of _resizeBuffers.
CopyOld(w, name, oldBuffer, simWidth, simHeight) ==
    LET transform ==
            IF name = "_velocity"
            THEN identityMatrix4(RDiv(simWidth, oldBuffer.w), RDiv(simHeight, oldBuffer.h),
                                 Num(1), Num(1))
            ELSE identityMatrix4(Num(1), Num(1), Num(1), Num(1))
        w1 == use(w, "transform", <<<<oldBuffer.read, 0>>>>,
                  [value |-> F32(transform), uTexture |-> Scalar(0)])
        w2 == Then(w1, LAMBDA x : _blit(x, x.fd[name][1].write))
        w3 == Then(w2, LAMBDA x : swap(x, name))
    IN  Then(w3, LAMBDA x : deleteFBO(deleteFBO(x, oldBuffer.read), oldBuffer.write))

RECURSIVE CopyAll(_, _, _, _, _)
CopyAll(w, names, oldFd, simWidth, simHeight) ==
    IF names = <<>> THEN w
    ELSE CopyAll(Then(w, LAMBDA x : CopyOld(x, names[1], oldFd[names[1]][1],
                                            simWidth, simHeight)),
                 Tail(names), oldFd, simWidth, simHeight)

\* _resizeBuffers(copyData)
_resizeBuffers(w, copyData) ==
    LET simWidth == RMul(Num(w.fd.width), w.fd.simScale)
        simHeight == RMul(Num(w.fd.height), w.fd.simScale)
        dyeWidth == RMul(Num(w.fd.width), w.fd.dyeScale)
        dyeHeight == RMul(Num(w.fd.height), w.fd.dyeScale)
        oldBuffers == IF w.fd._dye # None /\ copyData THEN StateBuffers ELSE <<>>
        \* this[name] = createDoubleTextureFBO(...) / createTextureFBO(...)
        double(x, name, wd, ht) ==
            LET y == createDoubleTextureFBO(x, wd, ht)
            IN  [y EXCEPT !.fd[name] = Some(DoubleFBO(y, wd, ht))]
        single(x, name) ==
            LET y == createTextureFBO(x, simWidth, simHeight)
            IN  [y EXCEPT !.fd[name] = Some(Len(y.gl.buffers))]
    IN  CopyAll(single(single(double(double(double(w, "_dye", dyeWidth, dyeHeight),
                                            "_velocity", simWidth, simHeight),
                                     "_pressure", simWidth, simHeight),
                              "_divergence"),
                       "_curl"),
                oldBuffers, w.fd, simWidth, simHeight)

\* The rescaling loop of _resizeIfNeeded over this.solids.
RECURSIVE RescaleSolids(_, _, _)
RescaleSolids(arr, sols, scale) ==
    IF sols = <<>> THEN arr
    ELSE LET s == sols[1]
             a1 == [arr EXCEPT ![s.position] =
                        <<PScale(scale[1], @[1]), PScale(scale[2], @[2])>>]
             a2 == [a1 EXCEPT ![s.velocity] =
                        <<PScale(scale[1], @[1]), PScale(scale[2], @[2])>>]
         IN  RescaleSolids(a2, Tail(sols), scale)

\* if (this._width) {...}: undefined and 0 are falsy.
Truthy(o) == o # None /\ o[1] # 0

\* A variant of _resizeIfNeeded that resizes the buffers and leaves the solids alone.
_resizeIfNeededWithoutRescale(w) ==
    IF \/ w.fd._width # Some(w.fd.width)
       \/ w.fd._height # Some(w.fd.height)
       \/ w.fd._simScale # Some(w.fd.simScale)
       \/ w.fd._dyeScale # Some(w.fd.dyeScale)
    THEN Then(_resizeBuffers(w, TRUE), LAMBDA x :
                [x EXCEPT !.fd._width = Some(x.fd.width),
                          !.fd._height = Some(x.fd.height),
                          !.fd._aspectRatio = Some(Rat(x.fd.width, x.fd.height)),
                          !.fd._simScale = Some(x.fd.simScale),
                          !.fd._dyeScale = Some(x.fd.dyeScale)])
    ELSE w

\* _resizeIfNeeded()
_resizeIfNeeded(w) ==
    IF \/ w.fd._width # Some(w.fd.width)
       \/ w.fd._height # Some(w.fd.height)
       \/ w.fd._simScale # Some(w.fd.simScale)
       \/ w.fd._dyeScale # Some(w.fd.dyeScale)
    THEN LET w1 == _resizeBuffers(w, TRUE)
             scale == <<Rat(w.fd.width, w.fd._width[1]), Rat(w.fd.height, w.fd._height[1])>>
             w2 == IF Truthy(w.fd._width)
                   THEN Then(w1, LAMBDA x :
                            [x EXCEPT !.arrays = RescaleSolids(@, x.fd.solids, scale)])
                   ELSE w1
         IN  Then(w2, LAMBDA x :
                [x EXCEPT !.fd._width = Some(x.fd.width),
                          !.fd._height = Some(x.fd.height),
                          !.fd._aspectRatio = Some(Rat(x.fd.width, x.fd.height)),
                          !.fd._simScale = Some(x.fd.simScale),
                          !.fd._dyeScale = Some(x.fd.dyeScale)])
    ELSE w

\* fbo.texelSize of a double buffer
texelSize(f) == Arr(<<RDiv(Num(1), f.w), RDiv(Num(1), f.h)>>)

\* _drawSolid(solid, this._velocity, color)
_drawSolid(w, solid, color) ==
    LET pos == w.arrays[solid.position]
        w1 == use(w, "ellipsis", <<<<w.fd._velocity[1].read, 0>>>>,
                  [point |-> Arr(<<(<<pos[1], w.fd._width>>), (<<pos[2], w.fd._height>>)>>),
                   color |-> color,
                   uSource |-> Scalar(0),
                   transform |-> splatTransform(0, solid.radius, solid.radius,
                                                w.fd._width, w.fd._height)])
        w2 == Then(w1, LAMBDA x : _blit(x, x.fd._velocity[1].write))
    IN  Then(w2, LAMBDA x : swap(x, "_velocity"))

\* mass = solid.mass || ((solid.density || 1) * Math.PI * r * r)
Mass(solid, r) ==
    LET given(o) == o # None /\ o[1] # Num(0)
    IN  IF given(solid.mass) THEN PiNum(solid.mass[1], Num(0))
        ELSE PiNum(Num(0),
                   RMul(IF given(solid.density) THEN solid.density[1] ELSE Num(1),
                        RMul(r, r)))

\* A variant of the loop body that gives the solid a new position array
\* (solid.position = [x, y]) instead of writing the elements of the one it has.
UpdateSolidReplacingPosition(w, i, dt, force) ==
    LET solid == w.fd.solids[i]
        pos == w.arrays[solid.position]
        vel == w.arrays[solid.velocity]
        sampleSize == Floor(RMul(solid.radius, w.fd.simScale)) * 2 + 2
        r == Rat(sampleSize - 1, 2)
        pForce == [k \in 1..2 |->
                      PiNum(Num(0), RMul(RSub(Num(0), force[k]), RMul(r, Rat(2, 20))))]
        mass == Mass(solid, r)
        newVel == [k \in 1..2 |-> PAdd(vel[k], PDiv(pForce[k], mass))]
        newPos == [k \in 1..2 |-> PAdd(pos[k], PScale(dt, newVel[k]))]
        fresh == Len(w.arrays) + 1
        w1 == [w EXCEPT
                 !.trace.integ = Append(@, [solid |-> i, left |-> 0, bottom |-> 0,
                                            sampleSize |-> sampleSize, r |-> r,
                                            pForce |-> <<pForce[1], pForce[2]>>,
                                            mass |-> mass]),
                 !.arrays = Append([@ EXCEPT ![solid.velocity] = <<newVel[1], newVel[2]>>],
                                   <<newPos[1], newPos[2]>>),
                 !.fd.solids[i].position = fresh]
    IN  _drawSolid(w1, w1.fd.solids[i],
                   Arr(<<(<<newVel[1], w.fd._simScale>>), (<<newVel[2], w.fd._simScale>>),
                         (<<PZero, None>>)>>))

\* The body of the loop of _updateSolids for the solid at index i; force = <<dx, dy>>
\* are the sums the loop over the circumference computes from the pressure read back.
UpdateSolid(w, i, dt, force) ==
    LET solid == w.fd.solids[i]
        pos == w.arrays[solid.position]
        vel == w.arrays[solid.velocity]
        corner(k) == PScale(w.fd.simScale,
                            PAdd(pos[k], PiNum(RSub(Num(0), solid.radius), Num(0))))
        left == PFloor(corner(1)) - 1
        bottom == PFloor(corner(2)) - 1
        sampleSize == Floor(RMul(solid.radius, w.fd.simScale)) * 2 + 2
        r == Rat(sampleSize - 1, 2)
        \* -dx * r * step with step = Math.PI * 2 / 20
        pForce == [k \in 1..2 |->
                      PiNum(Num(0), RMul(RSub(Num(0), force[k]), RMul(r, Rat(2, 20))))]
        mass == Mass(solid, r)
        newVel == [k \in 1..2 |-> PAdd(vel[k], PDiv(pForce[k], mass))]
        newPos == [k \in 1..2 |-> PAdd(pos[k], PScale(dt, newVel[k]))]
        w1 == [w EXCEPT
                 !.trace.passes = Append(@, [kind |-> "readPixels", prog |-> "none",
                                             reads |-> {<<"fbo", w.fd._pressure[1].read>>},
                                             target |-> 0]),
                 !.trace.integ = Append(@, [solid |-> i, left |-> left, bottom |-> bottom,
                                            sampleSize |-> sampleSize, r |-> r,
                                            pForce |-> <<pForce[1], pForce[2]>>,
                                            mass |-> mass]),
                 !.arrays[solid.velocity] = <<newVel[1], newVel[2]>>,
                 !.arrays[solid.position] = <<newPos[1], newPos[2]>>]
    IN  _drawSolid(w1, solid,
                   Arr(<<(<<newVel[1], w.fd._simScale>>), (<<newVel[2], w.fd._simScale>>),
                         (<<PZero, None>>)>>))

\* _updateSolids(dt): forces[i] is the pressure sum read for solid i.
RECURSIVE UpdateFrom(_, _, _, _)
UpdateFrom(w, i, dt, forces) ==
    IF i > Len(w.fd.solids) THEN w
    ELSE UpdateFrom(Then(w, LAMBDA x : UpdateSolid(x, i, dt, forces[i])), i + 1, dt, forces)

\* A variant of _updateSolids that leaves the solids out of the step.
_updateSolidsSkipped(w, dt, forces) == w

_updateSolids(w, dt, forces) == UpdateFrom(w, 1, dt, forces)

\* One iteration of the pressure loop of step.
PressureIteration(w) ==
    LET w1 == attach(w, w.fd._pressure[1].read, 1)
        w2 == [w1 EXCEPT !.gl.uniforms.pressure.uPressure = Some(Scalar(1))]
        w3 == _blit(w2, w2.fd._pressure[1].write)
    IN  swap(w3, "_pressure")

\* A variant of the pressure loop that leaves after its first iteration.
PressureLoopLeavingEarly(w, i) ==
    IF i < w.fd.pressureIterations THEN PressureIteration(w) ELSE w

RECURSIVE PressureLoop(_, _)
PressureLoop(w, i) ==
    IF i < w.fd.pressureIterations THEN PressureLoop(PressureIteration(w), i + 1) ELSE w

\* 1.0 - rate * dt
Decay(rate, dt) == RSub(Num(1), RMul(rate, dt))

\* step(dt)
step(w, dt, forces) ==
    LET vts(x) == texelSize(x.fd._velocity[1])
        curlPass(x) ==
            Then(use(x, "curl", <<<<x.fd._velocity[1].read, 0>>>>,
                     [uVelocity |-> Scalar(0), texelSize |-> vts(x)]),
                 LAMBDA y : _blit(y, y.fd._curl[1]))
        vorticityPass(x) ==
            Then(Then(use(x, "vorticity",
                          <<<<x.fd._velocity[1].read, 0>>, <<x.fd._curl[1], 1>>>>,
                          [uVelocity |-> Scalar(0), uCurl |-> Scalar(1),
                           texelSize |-> vts(x), curl |-> Scalar(x.fd.curl),
                           dt |-> Scalar(dt)]),
                      LAMBDA y : _blit(y, y.fd._velocity[1].write)),
                 LAMBDA y : swap(y, "_velocity"))
        divergencePass(x) ==
            Then(use(x, "divergence", <<<<x.fd._velocity[1].read, 0>>>>,
                     [uVelocity |-> Scalar(0), texelSize |-> vts(x)]),
                 LAMBDA y : _blit(y, y.fd._divergence[1]))
        dissipatePass(x) ==
            IF x.fd.pressureDissipation = Num(0) THEN x
            ELSE Then(Then(use(x, "transform", <<<<x.fd._pressure[1].read, 0>>>>,
                               [uTexture |-> Scalar(0),
                                value |-> F32(identityMatrix4(
                                    Decay(x.fd.pressureDissipation, dt),
                                    Num(1), Num(1), Num(1)))]),
                           LAMBDA y : _blit(y, y.fd._pressure[1].write)),
                      LAMBDA y : swap(y, "_pressure"))
        pressurePass(x) ==
            Then(use(x, "pressure", <<<<x.fd._divergence[1], 0>>>>,
                     [uDivergence |-> Scalar(0), texelSize |-> vts(x)]),
                 LAMBDA y : PressureLoop(y, 0))
        gradientPass(x) ==
            Then(Then(use(x, "gradientSubtract",
                          <<<<x.fd._pressure[1].read, 0>>, <<x.fd._velocity[1].read, 1>>>>,
                          [uPressure |-> Scalar(0), uVelocity |-> Scalar(1),
                           texelSize |-> vts(x)]),
                      LAMBDA y : _blit(y, y.fd._velocity[1].write)),
                 LAMBDA y : swap(y, "_velocity"))
        advectVelocity(x) ==
            Then(Then(use(attach(x, x.fd._velocity[1].read, 0), "advection", <<>>,
                          [uVelocity |-> Scalar(0), uSource |-> Scalar(0),
                           texelSize |-> vts(x), dt |-> Scalar(dt),
                           scale |-> Scalar(Decay(x.fd.velocityDissipation, dt))]),
                      LAMBDA y : _blit(y, y.fd._velocity[1].write)),
                 LAMBDA y : swap(y, "_velocity"))
        advectDye(x) ==
            Then(Then(use(x, "advection", <<<<x.fd._dye[1].read, 1>>>>,
                          [uSource |-> Scalar(1),
                           scale |-> Scalar(Decay(x.fd.dyeDissipation, dt))]),
                      LAMBDA y : _blit(y, y.fd._dye[1].write)),
                 LAMBDA y : swap(y, "_dye"))
        w1 == Called(w, "step", Some(dt))
    IN  IF "curl" \notin w.fd._programs \/ w.fd._velocity = None
        THEN Raise(w1, "TypeError")
        ELSE Then(Then(Then(Then(Then(Then(Then(Then(
                curlPass(w1),
                vorticityPass), divergencePass), dissipatePass), pressurePass),
                gradientPass), advectVelocity), advectDye),
                LAMBDA x : _updateSolids(x, dt, forces))

\* this["_" + renderSource]: the five fields, another private property of the
\* instance (_width), or nothing.
Underscore(f, source) ==
    CASE source \in {"dye", "velocity", "pressure"} ->
            LET v == f[CASE source = "dye" -> "_dye"
                         [] source = "velocity" -> "_velocity"
                         [] OTHER -> "_pressure"]
            IN  IF v = None THEN [kind |-> "undefined", id |-> 0]
                ELSE [kind |-> "double", id |-> v[1].read]
      [] source \in {"divergence", "curl"} ->
            LET v == f[IF source = "divergence" THEN "_divergence" ELSE "_curl"]
            IN  IF v = None THEN [kind |-> "undefined", id |-> 0]
                ELSE [kind |-> "single", id |-> v[1]]
      [] source = "width" ->
            IF Truthy(f._width) THEN [kind |-> "other", id |-> 0]
            ELSE [kind |-> "undefined", id |-> 0]
      [] OTHER -> [kind |-> "undefined", id |-> 0]

\* this.renderTransforms[renderSource] || 1, made a matrix when it is a scalar.
RenderTransform(w, source) ==
    LET entry == w.rtObjs[w.fd.renderTransforms][source]
        given == IF entry = None \/ entry = Some(Num(0)) THEN Some(Num(1)) ELSE entry
    IN  IF Len(given) = 16 THEN given ELSE defaultRenderTransform(source, given[1])

\* A variant of render that swaps the double buffer it drew from.
renderThenSwap(w) ==
    LET source == Underscore(w.fd, w.fd.renderSource)
        w1 == Called(w, "render", None)
        w2 == Then(use(w1, "transform", <<<<source.id, 0>>>>,
                       [uTexture |-> Scalar(0),
                        value |-> F32(RenderTransform(w1, w1.fd.renderSource))]),
                   LAMBDA x : _blit(x, 0))
    IN  IF source.kind = "undefined" THEN Raise(w1, "Can't find render source")
        ELSE IF source.kind = "other" THEN Raise(w1, "TypeError")
        ELSE IF source.kind = "double"
             THEN Then(w2, LAMBDA x : swap(x, "_" \o w.fd.renderSource))
        ELSE w2

\* A variant of render that returns without drawing when the source is not found.
renderIgnoringUnknown(w) ==
    LET source == Underscore(w.fd, w.fd.renderSource)
        w1 == Called(w, "render", None)
    IN  IF source.kind = "undefined" THEN w1
        ELSE IF source.kind = "other" THEN Raise(w1, "TypeError")
        ELSE Then(use(w1, "transform", <<<<source.id, 0>>>>,
                      [uTexture |-> Scalar(0),
                       value |-> F32(RenderTransform(w1, w1.fd.renderSource))]),
                  LAMBDA x : _blit(x, 0))

\* render()
render(w) ==
    LET source == Underscore(w.fd, w.fd.renderSource)
        w1 == Called(w, "render", None)
    IN  IF source.kind = "undefined" THEN Raise(w1, "Can't find render source")
        ELSE IF source.kind = "other" THEN Raise(w1, "TypeError")
        ELSE Then(use(w1, "transform", <<<<source.id, 0>>>>,
                      [uTexture |-> Scalar(0),
                       value |-> F32(RenderTransform(w1, w1.fd.renderSource))]),
                  LAMBDA x : _blit(x, 0))

\* setVelocity(x, y, angle, majorSize, minorSize, dx, dy)
setVelocity(w, x, y, angle, majorSize, minorSize, dx, dy) ==
    LET w1 == Called(w, "setVelocity", None)
    IN  IF "splat" \notin w.fd._programs \/ w.fd._velocity = None
        THEN Raise(w1, "TypeError")
        ELSE Then(Then(use(w1, "splat", <<<<w.fd._velocity[1].read, 0>>>>,
                           [uSource |-> Scalar(0),
                            point |-> Arr(<<OverRecorded(x, w.fd._width),
                                            OverRecorded(y, w.fd._height)>>),
                            color |-> Arr(<<(<<dx, w.fd._simScale>>),
                                            (<<dy, w.fd._simScale>>), (<<0, None>>)>>),
                            transform |-> splatTransform(-angle, majorSize, minorSize,
                                                         w.fd._width, w.fd._height)]),
                       LAMBDA z : _blit(z, z.fd._velocity[1].write)),
                  LAMBDA z : swap(z, "_velocity"))

\* HSVtoRGB(h, 1.0, 1.0) for a hue h in [0, 1)
HSVtoRGB(h) ==
    LET i == Floor(RMul(h, Num(6)))
        f == RSub(RMul(h, Num(6)), Num(i))
        v == Num(1)
        p == Num(0)
        q == RSub(Num(1), f)
        t == f
    IN  CASE i % 6 = 0 -> <<v, t, p>>
          [] i % 6 = 1 -> <<q, v, p>>
          [] i % 6 = 2 -> <<p, v, t>>
          [] i % 6 = 3 -> <<p, q, v>>
          [] i % 6 = 4 -> <<t, p, v>>
          [] OTHER -> <<v, p, q>>

\* setDye(x, y, angle, majorSize, minorSize, color); random is what Math.random()
\* returns when no color is given.
setDye(w, x, y, angle, majorSize, minorSize, color, random) ==
    LET c == IF color = None THEN HSVtoRGB(random) ELSE color[1]
        w1 == Called(w, "setDye", None)
    IN  IF "splat" \notin w.fd._programs \/ w.fd._dye = None
        THEN Raise(w1, "TypeError")
        ELSE Then(Then(use(w1, "splat", <<<<w.fd._dye[1].read, 0>>>>,
                           [uSource |-> Scalar(0),
                            point |-> Arr(<<OverRecorded(x, w.fd._width),
                                            OverRecorded(y, w.fd._height)>>),
                            color |-> Arr([k \in 1..3 |-> RMul(c[k], Rat(272, 100))]),
                            transform |-> splatTransform(-angle, majorSize, minorSize,
                                                         w.fd._width, w.fd._height)]),
                       LAMBDA z : _blit(z, z.fd._dye[1].write)),
                  LAMBDA z : swap(z, "_dye"))

\* reset()
reset(w) == _resizeBuffers(Called(w, "reset", None), FALSE)

\* this.preRender(dt) / this.postRender(dt): a caller's function, which may throw.
CallHook(w, hook, dt, raises) ==
    LET w1 == Called(w, hook, Some(dt))
    IN  IF raises THEN Raise(w1, hook) ELSE w1

\* requestAnimationFrame(this._update.bind(this))
requestAnimationFrame(w) ==
    [Called(w, "requestAnimationFrame", None) EXCEPT !.raf = @ + 1]

\* The time delta of _update: now and this._now are Date.now() values (ms).
TimeDelta(f, now) ==
    RMin(IF Truthy(f._now) THEN Rat(now - f._now[1], 1000) ELSE Num(1),
         f.maxSimulationStep)

\* A variant of _update that ignores `paused`.
_updateSteppingAlways(w, now, in) ==
    LET dt == TimeDelta(w.fd, now)
        w1 == [w EXCEPT !.fd._now = Some(now)]
        w2 == _resizeIfNeeded(Called(w1, "_resizeIfNeeded", None))
        w3 == Then(w2, LAMBDA x : step(x, dt, in.forces))
        w4 == ThenIf(w3, LAMBDA x : x.fd.preRender # "null",
                     LAMBDA x : CallHook(x, "preRender", dt, in.preRaises))
        w5 == Then(w4, render)
        w6 == ThenIf(w5, LAMBDA x : x.fd.postRender # "null",
                     LAMBDA x : CallHook(x, "postRender", dt, in.postRaises))
    IN  ThenIf(w6, LAMBDA x : x.fd.autoUpdate, requestAnimationFrame)

\* A variant of _update that schedules the next frame whatever autoUpdate says.
_updateSchedulingAlways(w, now, in) ==
    LET dt == TimeDelta(w.fd, now)
        w1 == [w EXCEPT !.fd._now = Some(now)]
        w2 == _resizeIfNeeded(Called(w1, "_resizeIfNeeded", None))
        w3 == ThenIf(w2, LAMBDA x : ~x.fd.paused, LAMBDA x : step(x, dt, in.forces))
        w4 == ThenIf(w3, LAMBDA x : x.fd.preRender # "null",
                     LAMBDA x : CallHook(x, "preRender", dt, in.preRaises))
        w5 == Then(w4, render)
        w6 == ThenIf(w5, LAMBDA x : x.fd.postRender # "null",
                     LAMBDA x : CallHook(x, "postRender", dt, in.postRaises))
    IN  Then(w6, requestAnimationFrame)

\* A variant of _update that schedules the next frame even after a throw, as
\* if the scheduling stood in a finally block.
_updateSchedulingAfterThrow(w, now, in) ==
    LET dt == TimeDelta(w.fd, now)
        w1 == [w EXCEPT !.fd._now = Some(now)]
        w2 == _resizeIfNeeded(Called(w1, "_resizeIfNeeded", None))
        w3 == ThenIf(w2, LAMBDA x : ~x.fd.paused, LAMBDA x : step(x, dt, in.forces))
        w4 == ThenIf(w3, LAMBDA x : x.fd.preRender # "null",
                     LAMBDA x : CallHook(x, "preRender", dt, in.preRaises))
        w5 == Then(w4, render)
        w6 == ThenIf(w5, LAMBDA x : x.fd.postRender # "null",
                     LAMBDA x : CallHook(x, "postRender", dt, in.postRaises))
        again(x) == IF x.fd.autoUpdate THEN requestAnimationFrame(x) ELSE x
    IN  again(w6)

\* _update(): now is what Date.now() returns; in says whether each hook throws
\* and gives the pressure sums read for the solids.
_update(w, now, in) ==
    LET dt == TimeDelta(w.fd, now)
        w1 == [w EXCEPT !.fd._now = Some(now)]
        w2 == _resizeIfNeeded(Called(w1, "_resizeIfNeeded", None))
        w3 == ThenIf(w2, LAMBDA x : ~x.fd.paused, LAMBDA x : step(x, dt, in.forces))
        w4 == ThenIf(w3, LAMBDA x : x.fd.preRender # "null",
                     LAMBDA x : CallHook(x, "preRender", dt, in.preRaises))
        w5 == Then(w4, render)
        w6 == ThenIf(w5, LAMBDA x : x.fd.postRender # "null",
                     LAMBDA x : CallHook(x, "postRender", dt, in.postRaises))
    IN  ThenIf(w6, LAMBDA x : x.fd.autoUpdate, requestAnimationFrame)

\* Object.assign(target, source) on renderTransforms objects
Assign(target, source) ==
    [k \in RTKeys |-> IF source[k] # None THEN source[k] ELSE target[k]]

NoTransforms == [k \in RTKeys |-> None]

\* new FluidDynanmics(gl, o): o is the options object (None: no argument);
\* linked are the programs that compile and link.
constructor(o, linked) ==
    LET given == IF o = None THEN <<>> ELSE o[1]
        has(k) == k \in DOMAIN given
        \* Object.assign(this, config, opts), after the class fields
        assigned ==
            [k \in ConfigKeys |->
                IF has(k) THEN (IF k = "renderTransforms" THEN "opts" ELSE given[k])
                ELSE config[k]]
        fd0 == assigned @@
               [solids |-> <<>>, _width |-> None, _height |-> None, _simScale |-> None,
                _dyeScale |-> None, _aspectRatio |-> None, _now |-> None,
                _programs |-> {}, _dye |-> None, _velocity |-> None,
                _pressure |-> None, _divergence |-> None, _curl |-> None]
        rt0 == [config |-> configRenderTransforms,
                opts |-> IF has("renderTransforms") THEN given.renderTransforms
                         ELSE NoTransforms]
        w0 == [ctor |-> "raised", opts |-> o, fd |-> fd0, gl |-> GLInit,
               arrays |-> <<>>, rtObjs |-> rt0, raf |-> 0,
               trace |-> EmptyTrace("constructor", "none")]
        \* Object.assign(this.renderTransforms, config.renderTransforms,
        \*               opts.renderTransforms || {})
        target == fd0.renderTransforms
        rt1 == [rt0 EXCEPT ![target] = Assign(@, rt0.config)]
        rt2 == [rt1 EXCEPT ![target] =
                    Assign(@, IF has("renderTransforms") THEN rt1.opts ELSE NoTransforms)]
        w1 == [w0 EXCEPT !.rtObjs = rt2, !.fd._programs = linked, !.ctor = "returned"]
    IN  IF o = None THEN Raise(w0, "TypeError")
        ELSE IF w1.fd.autoUpdate THEN requestAnimationFrame(w1) ELSE w1

-----------------------------------------------------------------------------
(* Inputs. *)

\* Date.now() values (ms): the epoch, and three instants 20 ms and 80 ms apart.
Times == {0, 1000, 1020, 1100}
\* Sizes and scales the caller sets.
Widths == {100, 50}
Heights == {100, 30}
Scales == {<<1, 1>>, <<3, 4>>}
\* dt values the caller hands to step: 0, inside and at maxSimulationStep.
StepDts == {<<0, 1>>, <<1, 50>>, <<1, 20>>}
\* Pressure sums <<dx, dy>> read around a solid.
Forces == {<<(<<0, 1>>), (<<0, 1>>)>>, <<(<<1, 1>>), (<<-1, 2>>)>>}
SomeForce == <<(<<1, 1>>), (<<-1, 2>>)>>
\* renderSource values: the five fields, the documented "solid", the name of
\* another private property, and a name of nothing.
RenderSources == FieldNames \cup {"solid", "width", "none"}
\* renderTransforms entries the caller writes: scalars, 0 and a matrix.
TransformValues ==
    {Some(<<2, 1>>), Some(<<0, 1>>), identityMatrix4(<<1, 2>>, <<1, 2>>, <<1, 2>>, <<1, 1>>)}
\* The solids the caller pushes: one with a derived mass (density 2, radius 10)
\* and a smaller one with an explicit mass.
SolidChoices ==
    { [radius |-> <<10, 1>>, density |-> Some(<<2, 1>>), mass |-> None],
      [radius |-> <<5, 2>>, density |-> None, mass |-> Some(<<5, 1>>)] }
SolidStarts ==
    { <<(<<PiNum(<<40, 1>>, <<0, 1>>), PiNum(<<20, 1>>, <<0, 1>>)>>),
        (<<PiNum(<<-100, 1>>, <<0, 1>>), PZero>>)>> }

AllLinked == ProgramNames

-----------------------------------------------------------------------------
(* Actions. *)

Start(w) ==
    /\ ctor = w.ctor
    /\ opts = w.opts
    /\ fd = w.fd
    /\ gl = w.gl
    /\ arrays = w.arrays
    /\ rtObjs = w.rtObjs
    /\ raf = w.raf
    /\ trace = w.trace
    /\ budget = [ticks |-> MaxTicks, calls |-> MaxCalls, writes |-> MaxWrites,
                 frame |-> 0]

Spend(kind) ==
    /\ budget[kind] > 0
    /\ budget' = [budget EXCEPT ![kind] = @ - 1]

\* The browser runs a pending animation-frame callback: one _update().
\* Date.now() returns a value of T, and the pressure sums read are values of F.
RunTick(T, F) ==
    /\ ctor = "returned"
    /\ raf > 0
    /\ \E now \in T,
          pre \in IF fd.preRender = "null" THEN {FALSE} ELSE BOOLEAN,
          post \in IF fd.postRender = "null" THEN {FALSE} ELSE BOOLEAN,
          forces \in [1..Len(fd.solids) -> IF fd.paused THEN {SomeForce} ELSE F] :
            Become(_update(Begin([World EXCEPT !.raf = @ - 1], "_update"), now,
                           [preRaises |-> pre, postRaises |-> post, forces |-> forces]))

\* A tick of a bounded run.
TickAt(T, F) == RunTick(T, F) /\ Spend("ticks")
\* The browser's part of a tick of an unbounded run: a pending callback is run,
\* and budget.frame keeps the parity of the callbacks run.
FrameShown ==
    /\ ctor = "returned"
    /\ raf > 0
    /\ budget' = [budget EXCEPT !.frame = 1 - @]
\* A tick of an unbounded run.
TickOn == RunTick({1000, 1020}, {SomeForce}) /\ FrameShown

\* Ticks at any of the clock values, in any order.
Tick == TickAt(Times, Forces)
\* Ticks of a steady clock: 20 ms after the tick before.
TickSteady == TickAt({IF fd._now = None THEN 1000 ELSE fd._now[1] + 20}, {SomeForce})

\* The caller assigns a configuration field: fd.<key> = value.
Write(key, value) ==
    /\ ctor = "returned"
    /\ fd[key] # value
    /\ Spend("writes")
    /\ fd' = [fd EXCEPT ![key] = value]
    /\ trace' = EmptyTrace("set", trace.op)
    /\ UNCHANGED <<ctor, opts, gl, arrays, rtObjs, raf>>

SetWidth == \E v \in Widths : Write("width", v)
SetHeight == \E v \in Heights : Write("height", v)
SetSimScale == \E v \in Scales : Write("simScale", v)
SetDyeScale == \E v \in Scales : Write("dyeScale", v)
SetPaused == \E v \in BOOLEAN : Write("paused", v)
SetAutoUpdate == \E v \in BOOLEAN : Write("autoUpdate", v)
SetPreRender == \E v \in {"null", "function"} : Write("preRender", v)
SetPostRender == \E v \in {"null", "function"} : Write("postRender", v)
SetRenderSource == \E v \in RenderSources : Write("renderSource", v)
SetPressureDissipation == \E v \in {<<0, 1>>, <<1, 2>>} : Write("pressureDissipation", v)
SetPressureIterations == \E v \in {1, 20} : Write("pressureIterations", v)

\* fd.renderTransforms[k] = v
SetRenderTransform ==
    /\ ctor = "returned"
    /\ Spend("writes")
    /\ \E k \in FieldNames, v \in TransformValues :
          /\ rtObjs[fd.renderTransforms][k] # v
          /\ rtObjs' = [rtObjs EXCEPT ![fd.renderTransforms][k] = v]
    /\ trace' = EmptyTrace("set", trace.op)
    /\ UNCHANGED <<ctor, opts, fd, gl, arrays, raf>>

\* fd.solids.push({position, velocity, radius, density, mass}), which the caller
\* does after construction, before the first frame.
PushSolidFrom(C, S) ==
    /\ ctor = "returned"
    /\ trace.op \in {"constructor", "push"}
    /\ Len(fd.solids) < MaxSolids
    /\ \E c \in C, st \in S :
          /\ arrays' = arrays \o st
          /\ fd' = [fd EXCEPT !.solids =
                        Append(@, c @@ [position |-> Len(arrays) + 1,
                                        velocity |-> Len(arrays) + 2])]
    /\ trace' = EmptyTrace("push", trace.op)
    /\ UNCHANGED <<ctor, opts, gl, rtObjs, raf, budget>>

PushSolidOf(C) == PushSolidFrom(C, SolidStarts)
PushSolid == PushSolidOf(SolidChoices)
\* The ball of the README: radius and density given, the mass derived.
PushBall == PushSolidOf({[radius |-> <<10, 1>>, density |-> Some(<<2, 1>>), mass |-> None]})

\* The ball of the README where the demo's wall collision keeps it: touching
\* the left wall, touching the top right corner, one pixel off the bottom left
\* corner, and in the middle; at rest or moving left.
WallStarts ==
    { <<(<<PiNum(<<x, 1>>, <<0, 1>>), PiNum(<<y, 1>>, <<0, 1>>)>>),
        (<<PiNum(<<vx, 1>>, <<0, 1>>), PZero>>)>> :
        <<x, y>> \in {<<10, 50>>, <<90, 90>>, <<11, 11>>, <<50, 50>>}, vx \in {0, -100} }
PushWallBall ==
    PushSolidFrom({[radius |-> <<10, 1>>, density |-> Some(<<2, 1>>), mass |-> None]},
                  WallStarts)

\* A 16-bit pressure sample is decoded: uInt16ToFloat32(hf), once in a behaviour.
HalfInputs == 0 .. 65535
DecodeSample ==
    /\ ctor = "returned"
    /\ trace.op = "constructor"
    /\ \E hf \in HalfInputs :
          trace' = [EmptyTrace("uInt16ToFloat32", trace.op) EXCEPT
                      !.calls = <<[op |-> "uInt16ToFloat32", arg |-> Some(hf)]>>,
                      !.result = Some(uInt16ToFloat32(hf))]
    /\ UNCHANGED <<ctor, opts, fd, gl, arrays, rtObjs, raf, budget>>

\* The values a caller of compilePrograms hands to prog.use under each name:
\* numbers, arrays and typed arrays of the right and of other lengths.
UseMenu ==
    [uSource |-> {Scalar(0)},
     uTexture |-> {Scalar(0)},
     dt |-> {Scalar(<<1, 50>>)},
     point |-> {Arr(<<(<<1, 2>>), (<<1, 2>>)>>), Arr(<<(<<1, 2>>), (<<1, 2>>), (<<0, 1>>)>>),
               F32(<<(<<1, 2>>), (<<1, 2>>)>>)},
     color |-> {Arr(<<(<<1, 1>>), (<<0, 1>>), (<<0, 1>>)>>)},
     transform |-> {F32(<<(<<1, 1>>), (<<0, 1>>), (<<0, 1>>), (<<1, 1>>)>>),
                   F32(identityMatrix4(Num(1), Num(1), Num(1), Num(1)))},
     value |-> {F32(identityMatrix4(Num(1), Num(1), Num(1), Num(1))),
               F32(<<(<<1, 1>>), (<<0, 1>>), (<<0, 1>>), (<<0, 1>>), (<<1, 1>>),
                     (<<0, 1>>), (<<0, 1>>), (<<0, 1>>), (<<1, 1>>)>>),
               Arr(identityMatrix4(Num(1), Num(1), Num(1), Num(1)))}]

\* programs.<p>.use(params), called once on the programs of a new instance.
CallUse ==
    /\ ctor = "returned"
    /\ trace.op = "constructor"
    /\ \E p \in {"splat", "transform"}, names \in SUBSET DOMAIN UseMenu :
       \E pt \in UseMenu.point, tr \in UseMenu.transform, va \in UseMenu.value :
          LET params == [u \in names |->
                            CASE u = "point" -> pt
                              [] u = "transform" -> tr
                              [] u = "value" -> va
                              [] OTHER -> CHOOSE v \in UseMenu[u] : TRUE]
          IN  Become(use(Called(Begin(World, "use"), "use", Some(<<p, params>>)),
                         p, <<>>, params))
    /\ UNCHANGED budget

\* The caller's calls of the public methods.
CallStepWith(D, F) ==
    /\ ctor = "returned"
    /\ Spend("calls")
    /\ \E dt \in D, forces \in [1..Len(fd.solids) -> F] :
          Become(step(Begin(World, "step"), dt, forces))

CallStep == CallStepWith(StepDts, Forces)
\* fd.step(0.02)
CallStepOnce == CallStepWith({<<1, 50>>}, {SomeForce})

CallRender ==
    /\ ctor = "returned"
    /\ Spend("calls")
    /\ Become(render(Begin(World, "render")))

CallReset ==
    /\ ctor = "returned"
    /\ Spend("calls")
    /\ Become(reset(Begin(World, "reset")))

CallSetVelocity ==
    /\ ctor = "returned"
    /\ Spend("calls")
    /\ Become(setVelocity(Begin(World, "setVelocity"), 100, 80, 0, 50, 50, 200, 10))

CallSetDye ==
    /\ ctor = "returned"
    /\ Spend("calls")
    /\ \E color \in {None, Some(<<(<<1, 1>>), (<<0, 1>>), (<<0, 1>>)>>)} :
          Become(setDye(Begin(World, "setDye"), 100, 80, 0, 50, 50, color, <<1, 3>>))

-----------------------------------------------------------------------------
(* Specifications. *)

\* The update loop: ticks under every pause, hook, render-source and clock setting.
InitLoop ==
    \E o \in {Some([width |-> 100]),
              Some([paused |-> TRUE, preRender |-> "function", postRender |-> "function"])} :
        Start(constructor(o, AllLinked))
NextLoop ==
    \/ Tick
    \/ SetPaused
    \/ SetPreRender
    \/ SetPostRender
    \/ SetRenderSource
    \/ SetAutoUpdate
SpecLoop == InitLoop /\ [][NextLoop]_vars

\* Auto-driving without a bound on the frames: the browser runs every pending
\* animation-frame callback (weak fairness of the browser's part of the tick,
\* which is enabled exactly when the tick is), while the caller
\* switches autoUpdate, paused, the render source and the preRender hook; the
\* hooks may throw, render throws on a source that is no field, and step
\* throws when a program it uses did not link.
InitAuto ==
    \E o \in {Some([width |-> 100]), Some([autoUpdate |-> FALSE]),
              Some([preRender |-> "function", paused |-> TRUE]),
              Some([postRender |-> "function", pressureIterations |-> 2])},
       linked \in {AllLinked, AllLinked \ {"vorticity"}} :
        Start(constructor(o, linked))
NextAuto ==
    \/ TickOn
    \/ SetAutoUpdate
    \/ SetPaused
    \/ SetPreRender
    \/ SetRenderSource
SpecAuto == InitAuto /\ [][NextAuto]_vars /\ WF_budget(FrameShown)

\* Sizes, scales and solids: resizes, resets, steps.
InitResize ==
    \E o \in {Some([width |-> 100, pressureIterations |-> 2]),
              Some([width |-> 50, height |-> 30, simScale |-> <<3, 4>>,
                    dyeScale |-> <<3, 4>>, pressureIterations |-> 2, paused |-> TRUE])} :
        Start(constructor(o, AllLinked))
NextResize ==
    \/ TickSteady
    \/ SetWidth
    \/ SetHeight
    \/ SetSimScale
    \/ SetDyeScale
    \/ PushBall
    \/ CallReset
SpecResize == InitResize /\ [][NextResize]_vars

\* Solids in the fluid: ticks, steps, a resize and resets at two simulation scales.
InitSolid ==
    \E o \in {Some([width |-> 100, pressureIterations |-> 2]),
              Some([simScale |-> <<3, 4>>, pressureIterations |-> 2])} :
        Start(constructor(o, AllLinked))
NextSolid ==
    \/ TickSteady
    \/ PushSolid
    \/ SetWidth
    \/ CallStepOnce
    \/ CallReset
SpecSolid == InitSolid /\ [][NextSolid]_vars

\* The public methods, called from construction on.
InitApi == \E o \in {Some([width |-> 100]), Some([autoUpdate |-> FALSE])} :
              Start(constructor(o, AllLinked))
NextApi ==
    \/ TickSteady
    \/ CallRender
    \/ CallSetVelocity
    \/ CallSetDye
    \/ CallStep
    \/ SetRenderSource
SpecApi == InitApi /\ [][NextApi]_vars

\* Construction under different options objects, and none.
TransformsGiven(velocity, dye) ==
    [k \in RTKeys |-> CASE k = "velocity" -> velocity [] k = "dye" -> dye [] OTHER -> None]
CtorOpts ==
    { None,
      Some([width |-> 50, simScale |-> <<3, 4>>]),
      Some([renderSource |-> "velocity",
            renderTransforms |-> TransformsGiven(Some(<<5, 1>>), None)]),
      Some([autoUpdate |-> FALSE,
            renderTransforms |-> TransformsGiven(None, Some(<<2, 1>>))]),
      Some([paused |-> TRUE, pressureIterations |-> 2, maxSimulationStep |-> <<1, 10>>]) }
InitCtor == \E o \in CtorOpts : Start(constructor(o, AllLinked))
NextCtor ==
    \/ TickSteady
    \/ CallRender
    \/ SetRenderSource
    \/ SetRenderTransform
SpecCtor == InitCtor /\ [][NextCtor]_vars

\* The passes of step: steps called and ticked, with and without pressure
\* dissipation, under 1, 2 and 20 pressure iterations, with and without a solid.
InitStep ==
    \E o \in {Some([width |-> 100]),
              Some([pressureIterations |-> 2]),
              Some([pressureIterations |-> 2, pressureDissipation |-> <<1, 2>>])} :
        Start(constructor(o, AllLinked))
NextStep ==
    \/ TickSteady
    \/ CallStepOnce
    \/ PushSolid
    \/ SetPressureDissipation
    \/ SetPressureIterations
SpecStep == InitStep /\ [][NextStep]_vars

\* Construction on a context where all programs link, or where one of them
\* fails to compile or link, and the frames and calls that follow.
LinkOutcomes == {AllLinked} \cup {AllLinked \ {p} : p \in ProgramNames}
InitLink == \E linked \in LinkOutcomes : Start(constructor(Some([width |-> 100]), linked))
NextLink ==
    \/ TickSteady
    \/ CallRender
    \/ CallStepOnce
    \/ CallSetVelocity
    \/ CallSetDye
SpecLink == InitLink /\ [][NextLink]_vars

\* A ball inside the domain, at and off its walls, at two simulation scales.
InitWindow ==
    \E o \in {Some([pressureIterations |-> 2]),
              Some([simScale |-> <<3, 4>>, pressureIterations |-> 2])} :
        Start(constructor(o, AllLinked))
NextWindow ==
    \/ PushWallBall
    \/ TickSteady
    \/ CallStepOnce
SpecWindow == InitWindow /\ [][NextWindow]_vars

\* One use of a program with parameters of the caller's choice.
InitUse == Start(constructor(Some([autoUpdate |-> FALSE]), AllLinked))
NextUse == CallUse
SpecUse == InitUse /\ [][NextUse]_vars

\* The decoding of one pressure sample, for every 16-bit pattern.
InitHalf == Start(constructor(Some([width |-> 100]), AllLinked))
NextHalf == DecodeSample
SpecHalf == InitHalf /\ [][NextHalf]_vars

-----------------------------------------------------------------------------
(* Properties of the update loop (SpecLoop). *)

CallNames(s) == [i \in 1..Len(s) |-> s[i].op]
IsPrefix(s, t) == Len(s) <= Len(t) /\ s = SubSeq(t, 1, Len(s))

\* What the last tick called, the scheduling of the next frame left out.
TickCalls == SelectSeq(trace.calls, LAMBDA c : c.op # "requestAnimationFrame")

\* The order a tick is to follow under the settings it ran with.
TickOrder ==
    <<"_resizeIfNeeded">>
    \o (IF fd.paused THEN <<>> ELSE <<"step">>)
    \o (IF fd.preRender = "null" THEN <<>> ELSE <<"preRender">>)
    \o <<"render">>
    \o (IF fd.postRender = "null" THEN <<>> ELSE <<"postRender">>)

\* The dt values a tick handed to step and to the hooks.
TickDts == {trace.calls[i].arg[1] : i \in {j \in DOMAIN trace.calls : trace.calls[j].arg # None}}

C3_DtWithinBounds ==
    trace.op = "_update" =>
        \A dt \in TickDts : RLeq(Num(0), dt) /\ RLeq(dt, fd.maxSimulationStep)

-----------------------------------------------------------------------------
(* Properties of the public methods (SpecApi). *)

FieldProps == {"_dye", "_velocity", "_pressure", "_divergence", "_curl"}

\* C2: once the constructor has returned the five fields exist, and
\* setVelocity, setDye, step(dt) with 0 <= dt <= maxSimulationStep and render()
\* of a field complete without raising, before any tick as well.
C2_ReadyAfterConstruction ==
    ctor = "returned" =>
        /\ \A f \in FieldProps : fd[f] # None
        /\ (\/ trace.op \in {"setVelocity", "setDye", "step"}
            \/ trace.op = "render" /\ fd.renderSource \in FieldNames)
           => trace.raised = None

\* The call of render() of this step, made by the caller.
RenderCalled == trace'.op = "render" /\ budget'.calls < budget.calls

\* C7: render() changes no field, buffer content, double-buffer orientation,
\* solid or transform, and a render() right after a render() ends the same way
\* with the same draw: same source buffer, transform and viewport.
C7_RenderReadOnly ==
    [][RenderCalled =>
         /\ fd' = fd
         /\ gl'.buffers = gl.buffers
         /\ arrays' = arrays
         /\ rtObjs' = rtObjs
         /\ trace.op = "render" =>
                /\ trace'.raised = trace.raised
                /\ trace'.passes = trace.passes]_vars

\* Two render() calls in a row, both drawing a field to the screen.
C7_RenderedTwice ==
    /\ trace.op = "render"
    /\ trace.prev = "render"
    /\ trace.raised = None
    /\ Len(trace.passes) = 1
    /\ trace.passes[1].kind = "draw"

\* render() ran: called by the caller or by a tick.
RenderRan ==
    \/ trace.op = "render"
    \/ trace.op = "_update" /\ \E i \in DOMAIN trace.calls : trace.calls[i].op = "render"

ScreenDraws ==
    {i \in DOMAIN trace.passes :
        trace.passes[i].kind = "draw" /\ trace.passes[i].target = 0}

-----------------------------------------------------------------------------
(* Properties of construction (SpecCtor). *)

\* C4: after construction every key given in opts has the given value on the
\* instance, every entry given in opts.renderTransforms is the instance's entry
\* and the other entries are the defaults; with no options object the
\* constructor returns an instance with all defaults.
C4_OptionsTakeEffect ==
    trace.op = "constructor" =>
        LET given == IF opts = None THEN <<>> ELSE opts[1]
            transforms == IF "renderTransforms" \in DOMAIN given
                          THEN given.renderTransforms ELSE NoTransforms
        IN  /\ ctor = "returned"
            /\ \A k \in ConfigKeys \ {"renderTransforms"} :
                  fd[k] = IF k \in DOMAIN given THEN given[k] ELSE config[k]
            /\ \A k \in RTKeys :
                  rtObjs[fd.renderTransforms][k] =
                      IF transforms[k] # None THEN transforms[k]
                      ELSE configRenderTransforms[k]

\* Another instance, constructed without a renderTransforms option (before
\* or after the one observed): the object its renderTransforms refers to.
OtherTransforms == constructor(Some([autoUpdate |-> FALSE]), AllLinked).fd.renderTransforms

\* C21: whatever is constructed and written on one instance, the module-level
\* default renderTransforms keep their values, another instance's
\* renderTransforms are the defaults it was constructed with, and the
\* renderTransforms object the caller passed in the options holds after
\* construction what the caller put there.
C21_InstancesIsolated ==
    /\ rtObjs.config = configRenderTransforms
    /\ rtObjs[OtherTransforms] = configRenderTransforms
    /\ trace.op = "constructor" /\ opts # None =>
          ("renderTransforms" \in DOMAIN opts[1] =>
              rtObjs.opts = opts[1].renderTransforms)

-----------------------------------------------------------------------------
(* Properties of resizing (SpecResize). *)

\* The buffer ids the five fields hold.
FieldBuffers(f) ==
    UNION { IF f[n] = None THEN {} ELSE {f[n][1].read, f[n][1].write} :
              n \in {"_dye", "_velocity", "_pressure"} }
    \cup UNION { IF f[n] = None THEN {} ELSE {f[n][1]} : n \in {"_divergence", "_curl"} }

\* The size recorded for a field and the sizes of its buffers are all <<wd, ht>>.
DoubleSized(n, wd, ht) ==
    /\ fd[n] # None
    /\ fd[n][1].w = wd /\ fd[n][1].h = ht
    /\ \A id \in {fd[n][1].read, fd[n][1].write} :
          gl.buffers[id].width = wd /\ gl.buffers[id].height = ht
SingleSized(n, wd, ht) ==
    /\ fd[n] # None
    /\ gl.buffers[fd[n][1]].width = wd /\ gl.buffers[fd[n][1]].height = ht

\* C5: after every tick the velocity, pressure, divergence and curl fields are
\* ceil(width*simScale) x ceil(height*simScale) and the dye field is
\* ceil(width*dyeScale) x ceil(height*dyeScale).
C5_FieldDimensions ==
    trace.op = "_update" =>
        LET sw == Num(Ceil(RMul(Num(fd.width), fd.simScale)))
            sh == Num(Ceil(RMul(Num(fd.height), fd.simScale)))
            dw == Num(Ceil(RMul(Num(fd.width), fd.dyeScale)))
            dh == Num(Ceil(RMul(Num(fd.height), fd.dyeScale)))
        IN  /\ DoubleSized("_dye", dw, dh)
            /\ DoubleSized("_velocity", sw, sh)
            /\ DoubleSized("_pressure", sw, sh)
            /\ SingleSized("_divergence", sw, sh)
            /\ SingleSized("_curl", sw, sh)

\* The tick of this step.
Ticked == trace'.op = "_update" /\ budget'.ticks < budget.ticks

\* One of the four differs from the value the previous tick recorded.
ResizeDue ==
    \/ fd._width # Some(fd.width)
    \/ fd._height # Some(fd.height)
    \/ fd._simScale # Some(fd.simScale)
    \/ fd._dyeScale # Some(fd.dyeScale)

\* new size / old size along the two axes; 1 when nothing changed or no tick
\* has recorded a size yet.
SizeRatio ==
    IF ResizeDue /\ fd._width # None
    THEN <<Rat(fd.width, fd._width[1]), Rat(fd.height, fd._height[1])>>
    ELSE <<Num(1), Num(1)>>

\* C6: a tick that finds width, height, simScale or dyeScale changed gives all
\* five fields new buffers, records the new values, and multiplies every
\* solid's position[i] and velocity[i] by new size / old size once, before the
\* step integrates them; a tick that finds no change allocates nothing, keeps
\* the buffers and hands the solids to the step as they are.
C6_ResizeRescalesOnce ==
    [][Ticked =>
         /\ IF ResizeDue
            THEN /\ FieldBuffers(fd') \cap (1..Len(gl.buffers)) = {}
                 /\ Cardinality(FieldBuffers(fd')) = 8
                 /\ fd'._width = Some(fd.width) /\ fd'._height = Some(fd.height)
                 /\ fd'._simScale = Some(fd.simScale) /\ fd'._dyeScale = Some(fd.dyeScale)
            ELSE /\ Len(gl'.buffers) = Len(gl.buffers)
                 /\ FieldBuffers(fd') = FieldBuffers(fd)
         /\ \A i \in DOMAIN fd.solids :
              LET s == fd.solids[i]
                  p0 == [k \in 1..2 |-> PScale(SizeRatio[k], arrays[s.position][k])]
                  v0 == [k \in 1..2 |-> PScale(SizeRatio[k], arrays[s.velocity][k])]
                  e == trace'.integ[i]
                  dt == CHOOSE d \in {trace'.calls[j].arg[1] :
                                        j \in {c \in DOMAIN trace'.calls :
                                                 trace'.calls[c].op = "step"}} : TRUE
                  v1 == [k \in 1..2 |->
                           IF fd.paused THEN v0[k]
                           ELSE PAdd(v0[k], PDiv(e.pForce[k], e.mass))]
                  p1 == [k \in 1..2 |->
                           IF fd.paused THEN p0[k] ELSE PAdd(p0[k], PScale(dt, v1[k]))]
              IN  /\ arrays'[s.velocity] = <<v1[1], v1[2]>>
                  /\ arrays'[s.position] = <<p1[1], p1[2]>>]_vars

\* A paused tick found the width doubled from 50 to 100 and gave the fields
\* their second set of buffers: the ball pushed at <<40, 20>> with velocity
\* <<-100, 0>> is at <<80, 20>> with velocity <<-200, 0>>.
C6_BallRescaled ==
    /\ trace.op = "_update"
    /\ fd.paused
    /\ Len(fd.solids) = 1
    /\ Len(gl.buffers) = 16
    /\ fd._width = Some(100)
    /\ arrays[fd.solids[1].position] = <<PiNum(Num(80), Num(0)), PiNum(Num(20), Num(0))>>
    /\ arrays[fd.solids[1].velocity] = <<PiNum(Num(-200), Num(0)), PZero>>

-----------------------------------------------------------------------------
(* Properties of the solids (SpecSolid). *)

\* C9: the mass a solid is integrated with is solid.mass when it has one, and
\* otherwise density * pi * radius^2 with its own radius and density 1 when it
\* has none, at every simulation scale.
C9_MassFromRadius ==
    \A i \in DOMAIN trace.integ :
        LET e == trace.integ[i]
            s == fd.solids[e.solid]
            density == IF s.density = None THEN Num(1) ELSE s.density[1]
        IN  e.mass = IF s.mass # None THEN PiNum(s.mass[1], Num(0))
                     ELSE PiNum(Num(0), RMul(density, RMul(s.radius, s.radius)))

\* C10: a tick, a step or a reset leaves the solids list as it is (the same
\* solids in the same order, each with its radius, mass and density and with
\* the position and velocity arrays it had), creates no array, and keeps each
\* array two elements long: only elements of those arrays change.
C10_SolidsMutatedInPlace ==
    [][trace'.op \in {"_update", "step", "reset"} =>
         /\ fd'.solids = fd.solids
         /\ DOMAIN arrays' = DOMAIN arrays
         /\ \A r \in DOMAIN arrays : Len(arrays'[r]) = 2]_vars

\* A tick moved a solid: its position is no longer where it was pushed.
C10_SolidMoved ==
    /\ trace.op = "_update"
    /\ trace.integ # <<>>
    /\ \E i \in DOMAIN fd.solids :
          arrays[fd.solids[i].position] # <<PiNum(Num(40), Num(0)), PiNum(Num(20), Num(0))>>

-----------------------------------------------------------------------------
(* Properties of the half-float decoding (SpecHalf). *)

\* m * 2^e with m odd (or m = 0): the same number with the factors 2 of m moved to e.
RECURSIVE Normal(_, _)
Normal(m, e) == IF m = 0 THEN <<0, 0>> ELSE IF m % 2 = 0 THEN Normal(m \div 2, e + 1) ELSE <<m, e>>

\* The number a float16 bit pattern stands for (IEEE 754 binary16).
HalfValue(hf) ==
    LET sign == hf \div 32768
        expo == (hf \div 1024) % 32
        frac == hf % 1024
    IN  IF expo = 31
        THEN [sign |-> sign, kind |-> IF frac = 0 THEN "inf" ELSE "nan",
              num |-> <<frac * 8192, 0>>]
        ELSE [sign |-> sign, kind |-> "finite",
              num |-> IF expo = 0 THEN Normal(frac, -24)
                      ELSE Normal(1024 + frac, expo - 25)]

\* The number a float32 bit pattern <<s, m>> stands for (IEEE 754 binary32); a
\* NaN keeps its fraction bits.
SingleValue(bits) ==
    LET expo == bits[2] \div 8388608
        frac == bits[2] % 8388608
    IN  IF expo = 255
        THEN [sign |-> bits[1], kind |-> IF frac = 0 THEN "inf" ELSE "nan",
              num |-> <<frac, 0>>]
        ELSE [sign |-> bits[1], kind |-> "finite",
              num |-> IF expo = 0 THEN Normal(frac, -149)
                      ELSE Normal(8388608 + frac, expo - 150)]

\* C11: for every 16-bit input, uInt16ToFloat32 returns the float32 that is the
\* exact IEEE 754 half-to-single conversion of it: the same sign, the same
\* number for zeros, subnormals and normals, the infinities, and NaNs with the
\* fraction bits carried over.
C11_HalfToSingleExact ==
    trace.op = "uInt16ToFloat32" =>
        SingleValue(trace.result[1]) = HalfValue(trace.calls[1].arg[1])

\* A step of SpecAuto that is a tick.
AutoTicked == trace'.op = "_update" /\ budget'.frame # budget.frame
\* The animation frames the operation requested.
Scheduled(t) == Len(SelectSeq(t.calls, LAMBDA c : c.op = "requestAnimationFrame"))

C20_RaisedTickStopsLoop ==
    /\ [][AutoTicked /\ trace'.raised # None =>
            /\ Scheduled(trace') = 0
            /\ raf' = 0
            /\ fd'.autoUpdate = fd.autoUpdate]_vars
    /\ [][raf = 0 => raf' = 0 /\ ~AutoTicked]_vars
\* A tick raised under autoUpdate true, and after a later write to the
\* instance still no tick is pending.
C20_StoppedForGood ==
    /\ trace.op = "set" /\ trace.prev = "_update"
    /\ fd.autoUpdate
    /\ raf = 0

-----------------------------------------------------------------------------
(* Properties of the passes of step (SpecStep). *)

\* The last operation ran step, on buffers that exist.
Stepped(t, f) ==
    /\ t.op \in {"step", "_update"}
    /\ \E i \in 1..Len(t.calls) : t.calls[i].op = "step"
    /\ f._velocity # None
\* The passes of step in the operation: all but render's draw to the screen.
StepPasses(t) == SelectSeq(t.passes, LAMBDA p : ~(p.kind = "draw" /\ p.target = 0))
\* The field a buffer belongs to.
FieldOf(f, id) ==
    CASE id \in {f._velocity[1].read, f._velocity[1].write} -> "_velocity"
      [] id \in {f._pressure[1].read, f._pressure[1].write} -> "_pressure"
      [] id \in {f._dye[1].read, f._dye[1].write} -> "_dye"
      [] id = f._divergence[1] -> "_divergence"
      [] id = f._curl[1] -> "_curl"
      [] OTHER -> "none"
\* A pass in short: the program and the field drawn to, the field swapped, or
\* the field read back.
Short(f, p) ==
    CASE p.kind = "draw" -> <<p.prog, FieldOf(f, p.target)>>
      [] p.kind = "swap" -> <<"swap", p.prog>>
      [] p.kind = "readPixels" ->
            <<"readPixels", FieldOf(f, (CHOOSE r \in p.reads : TRUE)[2])>>
      [] OTHER -> <<p.kind, "none">>
RECURSIVE Repeat(_, _)
Repeat(s, n) == IF n = 0 THEN <<>> ELSE s \o Repeat(s, n - 1)
\* The passes a step is to issue under the settings f.
StepOrder(f) ==
    <<(<<"curl", "_curl">>),
      (<<"vorticity", "_velocity">>), (<<"swap", "_velocity">>),
      (<<"divergence", "_divergence">>)>>
    \o (IF f.pressureDissipation # Num(0)
        THEN <<(<<"transform", "_pressure">>), (<<"swap", "_pressure">>)>> ELSE <<>>)
    \o Repeat(<<(<<"pressure", "_pressure">>), (<<"swap", "_pressure">>)>>,
              f.pressureIterations)
    \o <<(<<"gradientSubtract", "_velocity">>), (<<"swap", "_velocity">>),
         (<<"advection", "_velocity">>), (<<"swap", "_velocity">>),
         (<<"advection", "_dye">>), (<<"swap", "_dye">>)>>
    \o Repeat(<<(<<"readPixels", "_pressure">>),
                (<<"ellipsis", "_velocity">>), (<<"swap", "_velocity">>)>>,
              Len(f.solids))
\* The passes of t.passes that drew with the pressure program.
PressureDraws(t) ==
    {i \in 1..Len(t.passes) : t.passes[i].kind = "draw" /\ t.passes[i].prog = "pressure"}
\* The buffer the readPixels pass at i reads was last drawn to, before i, by
\* the last pressure iteration of the same operation.
ReadsSolvedPressure(t, i) ==
    LET buf == (CHOOSE r \in t.passes[i].reads : TRUE)[2]
        draws == {j \in 1..(i - 1) : t.passes[j].kind = "draw" /\ t.passes[j].target = buf}
    IN  /\ draws # {}
        /\ PressureDraws(t) # {}
        /\ \A j \in draws : j <= (CHOOSE m \in PressureDraws(t) :
                                    \A k \in PressureDraws(t) : k <= m)
        /\ (CHOOSE m \in PressureDraws(t) : \A k \in PressureDraws(t) : k <= m) \in draws

\* C13: a step issues its passes in one fixed order: curl, vorticity (drawn to
\* velocity), divergence, pressure dissipation if enabled, the pressure
\* iterations, gradient subtraction (drawn to velocity), velocity advection,
\* dye advection, and the update of each solid last, none skipped, repeated or
\* reordered; and each solid's update reads back the pressure buffer that the
\* last pressure iteration of the same step drew.
C13_StepOrder ==
    Stepped(trace, fd) =>
        /\ [i \in 1..Len(StepPasses(trace)) |-> Short(fd, StepPasses(trace)[i])]
              = StepOrder(fd)
        /\ \A i \in 1..Len(trace.passes) :
              trace.passes[i].kind = "readPixels" => ReadsSolvedPressure(trace, i)
\* A step with pressure dissipation and a solid ran to its end.
C13_FullStep ==
    /\ Stepped(trace, fd)
    /\ trace.raised = None
    /\ fd.pressureDissipation # Num(0)
    /\ Len(fd.solids) = 1
    /\ \E i \in 1..Len(trace.passes) : trace.passes[i].kind = "readPixels"

\* The double-buffered fields.
DoubleFields == {"_dye", "_velocity", "_pressure"}
\* The swaps of field name among the passes of t after pass i.
SwapsAfter(t, name, i) ==
    Cardinality({j \in (i + 1)..Len(t.passes) :
                    t.passes[j].kind = "swap" /\ t.passes[j].prog = name})
\* What buffer id was when pass i of t drew: "read" or "write" for a buffer of a
\* double-buffered field (f is the state the operation left), "other" otherwise.
RoleAt(t, f, i, id) ==
    LET name == FieldOf(f, id)
        last == IF name \in DoubleFields /\ id = f[name][1].read THEN "read" ELSE "write"
    IN  IF name \notin DoubleFields THEN "other"
        ELSE IF SwapsAfter(t, name, i) % 2 = 0 THEN last
        ELSE IF last = "read" THEN "write" ELSE "read"

\* C14: in a step, every pass that samples a buffer of a double-buffered field
\* samples the buffer that is the field's read buffer when the pass draws, never
\* one that is then a write buffer (the velocity that velocity advection and dye
\* advection trace back through included); and a pass that draws to such a
\* field draws to its write buffer and is followed at once by one swap of it.
C14_SamplesReadBuffers ==
    Stepped(trace, fd) =>
        \A i \in 1..Len(trace.passes) :
            trace.passes[i].kind = "draw" =>
                /\ \A r \in trace.passes[i].reads :
                      RoleAt(trace, fd, i, r[2]) \in {"read", "other"}
                /\ FieldOf(fd, trace.passes[i].target) \in DoubleFields =>
                      /\ RoleAt(trace, fd, i, trace.passes[i].target) = "write"
                      /\ i < Len(trace.passes)
                      /\ trace.passes[i + 1].kind = "swap"
                      /\ trace.passes[i + 1].prog = FieldOf(fd, trace.passes[i].target)
                      /\ i + 1 < Len(trace.passes) =>
                            ~(/\ trace.passes[i + 2].kind = "swap"
                              /\ trace.passes[i + 2].prog = trace.passes[i + 1].prog)

\* The value of sampler u in pass p: the buffer sampled.
Sampled(p, u) == (CHOOSE r \in p.reads : r[1] = u)[2]

\* C16: a step draws exactly pressureIterations pressure passes (20 by
\* default), however the iteration goes; each samples the divergence field and
\* the pressure buffer that is then the read buffer, draws to the one that is
\* then the write buffer, and is followed by exactly one swap of pressure.
C16_PressureIterations ==
    /\ config.pressureIterations = 20
    /\ Stepped(trace, fd) =>
          /\ Cardinality(PressureDraws(trace)) = fd.pressureIterations
          /\ \A i \in PressureDraws(trace) :
                /\ Sampled(trace.passes[i], "uDivergence") = fd._divergence[1]
                /\ FieldOf(fd, Sampled(trace.passes[i], "uPressure")) = "_pressure"
                /\ RoleAt(trace, fd, i, Sampled(trace.passes[i], "uPressure")) = "read"
                /\ FieldOf(fd, trace.passes[i].target) = "_pressure"
                /\ RoleAt(trace, fd, i, trace.passes[i].target) = "write"
                /\ trace.passes[i + 1].kind = "swap"
                /\ trace.passes[i + 1].prog = "_pressure"
                /\ ~(/\ trace.passes[i + 2].kind = "swap"
                      /\ trace.passes[i + 2].prog = "_pressure")
\* A step under the default of 20 iterations drew its 20 pressure passes.
C16_TwentyPasses ==
    /\ Stepped(trace, fd)
    /\ fd.pressureIterations = 20
    /\ opts = Some([width |-> 100])
    /\ Cardinality(PressureDraws(trace)) = 20

-----------------------------------------------------------------------------
(* Properties of the buffers' lifetime (SpecResize). *)

\* The buffers created and not deleted.
LiveBuffers == {id \in 1..Len(gl.buffers) : ~gl.buffers[id].deleted}
\* The passes of the last operation that delete buffer id.
DeletesOf(id) ==
    {i \in 1..Len(trace.passes) :
        trace.passes[i].kind = "delete" /\ trace.passes[i].target = id}

\* C15: the buffers created and not deleted are those of the current five
\* fields (8 once the fields exist), so every buffer a resize or a reset
\* replaced has been deleted; and a buffer is deleted once, and after that no
\* pass samples it, draws to it or reads it back.
C15_ReplacedBuffersReleased ==
    /\ LiveBuffers = FieldBuffers(fd)
    /\ fd._dye # None => Cardinality(LiveBuffers) = 8
    /\ \A id \in 1..Len(gl.buffers) :
          /\ Cardinality(DeletesOf(id)) <= 1
          /\ \A i \in DeletesOf(id) : \A j \in (i + 1)..Len(trace.passes) :
                /\ trace.passes[j].target # id
                /\ \A r \in trace.passes[j].reads : r[2] # id

-----------------------------------------------------------------------------
(* Properties of prog.use (SpecUse). *)

\* The number of components a value has ...
Components(v) == IF v.t = "number" THEN 1 ELSE Len(v.v)
\* ... and the number a uniform of a GLSL type takes.
Required(type) ==
    CASE type \in {"float", "int", "sampler2D"} -> 1
      [] type = "vec2" -> 2
      [] type = "vec3" -> 3
      [] type = "vec4" -> 4
      [] type = "mat2" -> 4
      [] type = "mat3" -> 9
      [] type = "mat4" -> 16

\* C17: prog.use(params) raises if one of the names is not a uniform of the
\* program or its value has another number of components than the uniform's
\* type takes (scalar, vector or matrix); otherwise it raises nothing and
\* every named uniform holds the value given.
C17_UseChecksParameters ==
    trace.op = "use" =>
        LET p == trace.calls[1].arg[1][1]
            params == trace.calls[1].arg[1][2]
            illFormed ==
                \E u \in DOMAIN params :
                    \/ u \notin DOMAIN UniformTypes[p]
                    \/ Components(params[u]) # Required(UniformTypes[p][u])
        IN  IF illFormed THEN trace.raised # None
            ELSE /\ trace.raised = None
                 /\ \A u \in DOMAIN params : gl.uniforms[p][u] = Some(params[u])

-----------------------------------------------------------------------------
(* Properties of construction under link failures (SpecLink). *)

\* C18: the constructor returns an instance only if every program compiled and
\* linked: the instance has all nine programs, and after a failure the
\* constructor raised.
C18_LinkFailureRaises ==
    /\ ctor = "returned" => fd._programs = ProgramNames
    /\ trace.op = "constructor" /\ fd._programs # ProgramNames =>
          ctor = "raised" /\ trace.raised # None

-----------------------------------------------------------------------------
(* Properties of the pressure window of a solid (SpecWindow). *)

\* radius <= p <= size - radius, for a coordinate p without a multiple of pi.
InsideAlong(p, radius, size) ==
    /\ p[2] = Num(0)
    /\ RLeq(radius, p[1])
    /\ RLeq(p[1], RSub(Num(size), radius))
\* The window [origin, origin + side) lies inside [0, size * simScale).
WindowInside(origin, side, size, simScale) ==
    /\ origin >= 0
    /\ RLeq(Num(origin + side), RMul(Num(size), simScale))

\* C19: when a step reads the pressure around a solid that lies wholly inside
\* the domain (radius <= position[i] <= size[i] - radius on both axes), the
\* window read (left, bottom, sampleSize) lies wholly inside the pressure
\* field [0, width * simScale) x [0, height * simScale).
C19_WindowInsideField ==
    [][\A k \in 1..Len(trace'.integ) :
          LET e == trace'.integ[k]
              solid == fd.solids[e.solid]
              pos == arrays[solid.position]
          IN  /\ Stepped(trace', fd')
              /\ fd._width \in {None, Some(fd.width)}
              /\ fd._height \in {None, Some(fd.height)}
              /\ InsideAlong(pos[1], solid.radius, fd.width)
              /\ InsideAlong(pos[2], solid.radius, fd.height)
              => /\ WindowInside(e.left, e.sampleSize, fd.width, fd.simScale)
                 /\ WindowInside(e.bottom, e.sampleSize, fd.height, fd.simScale)]_vars

====
